---------------------------- MODULE Spec2Model ----------------------------
(***************************************************************************)
(* Model of the latency benchmark harness elapsed_time of                  *)
(* generative-ai-talk-banglore-may-23/stable-diffusion-intel-openvino-     *)
(* demo.ipynb (cell 2, lines 47-56 of the notebook file) and of the cells  *)
(* that call it.                                                           *)
(*                                                                         *)
(*   def elapsed_time(pipeline, prompt, nb_pass=4, num_inference_steps=20):*)
(*       # warmup                                                          *)
(*       images = pipeline(prompt, num_inference_steps=10).images    L50   *)
(*       start = time.time()                                         L52   *)
(*       for _ in range(nb_pass):                                    L53   *)
(*           _ = pipeline(prompt, num_inference_steps=..., "np")     L54   *)
(*       end = time.time()                                           L55   *)
(*       return (end - start) / nb_pass                              L56   *)
(*                                                                         *)
(* The pipeline is an external capability: an invocation either returns    *)
(* after some time or raises.  time.time() reads the system wall clock,    *)
(* which advances with real time and which the system may set back while   *)
(* time passes (it is not a monotonic clock).  Real time passes only       *)
(* inside pipeline invocations; the harness's own statements take none.    *)
(* The quotient of line 56 is kept exact, as numerator and denominator.    *)
(***************************************************************************)
EXTENDS Integers, Sequences, FiniteSets

\* ----------------------------------------------------------------- bounds
\* largest nb_pass a caller passes explicitly
MaxPass == 2
\* longest real duration of one pipeline invocation, in clock ticks
MaxDur == 2
\* largest nb_pass passed by a caller that calls the harness twice
MaxPassTwice == 1

\* ------------------------------------------------------ program constants
\* nb_pass=4 in the signature
DefaultNbPass == 4
\* num_inference_steps=20 in the signature
DefaultSteps == 20
\* num_inference_steps=10 of the warm-up invocation
WarmupSteps == 10

\* an omitted keyword argument / an unset local; a given value v is <<v>>
NoArg == <<>>
Given(v) == <<v>>

\* the two pipeline objects the notebook builds, and the prompts passed
Pipelines == {"pipe", "ov_pipe"}
Prompts == {"sailing ship in storm by Rembrandt", "another prompt"}

\* the environment: real duration of an invocation, and the amount by which
\* the system sets the wall clock while the invocation runs
Durations == 1..MaxDur
ClockSteps == {0, -(MaxDur + 1)}

VARIABLES
    script,                 \* the caller: calls of elapsed_time still to make
    history,                \* the calls that have ended, oldest first
    pc,                     \* position in elapsed_time, "idle" outside it
    pipeline,               \* parameter
    prompt,                 \* parameter
    nb_pass,                \* parameter
    num_inference_steps,    \* parameter
    i,                      \* iterations of range(nb_pass) consumed
    start,                  \* local, <<>> until line 52 ran
    end,                    \* local, <<>> until line 55 ran
    calls,                  \* the pipeline invocations of the current call
    outcome,                \* how the current call ended
    clock                   \* the reading time.time() would give now

vars == <<script, history, pc, pipeline, prompt, nb_pass, num_inference_steps,
          i, start, end, calls, outcome, clock>>

\* --------------------------------------------------------------- helpers
\* a default one less than the signature's
BindDefaultOffByOne(arg, default) == IF arg = NoArg THEN default - 1 ELSE arg[1]

\* a parameter with a default value
BindDefault(arg, default) == IF arg = NoArg THEN default ELSE arg[1]

\* time.time()
TimeTime == clock

\* a warm-up that takes the caller's step count
WarmupArgsCallerSteps(pl, pr, steps) ==
    [pipeline |-> pl, prompt |-> pr, steps |-> steps, otype |-> "default"]

\* the arguments of the warm-up invocation of line 50
WarmupArgs(pl, pr, steps) ==
    [pipeline |-> pl, prompt |-> pr, steps |-> WarmupSteps, otype |-> "default"]

\* the arguments of a timed invocation of line 54
TimedArgs(pl, pr, steps) ==
    [pipeline |-> pl, prompt |-> pr, steps |-> steps, otype |-> "np"]

\* a pipeline invocation made at line `site`, entered at clock reading tb
Invocation(args, site, tb) ==
    [pipeline |-> args.pipeline, prompt |-> args.prompt, steps |-> args.steps,
     otype |-> args.otype, site |-> site, status |-> "running",
     tb |-> tb, te |-> tb]

\* a loop that runs one pass too many
LoopCondOffByOne(k, n) == k <= n

\* range(nb_pass) has a next element after k iterations
LoopCond(k, n) == k < n

\* the elapsed time returned undivided
AverageNoDivide(s, e, n) == [num |-> e - s, den |-> 1]

\* (end - start) / nb_pass
Average(s, e, n) == [num |-> e - s, den |-> n]

NoOutcome == [kind |-> "none", exc |-> "", num |-> 0, den |-> 1]
Returned(q) == [kind |-> "returned", exc |-> "", num |-> q.num, den |-> q.den]
Raised(x) == [kind |-> "raised", exc |-> x, num |-> 0, den |-> 1]

\* what the caller sees of a call that ended
Summary(o, cs) ==
    [given |-> Head(script), pipeline |-> pipeline, prompt |-> prompt,
     nb_pass |-> nb_pass, num_inference_steps |-> num_inference_steps,
     start |-> start, end |-> end, calls |-> cs, outcome |-> o]

\* the last invocation ends with `status` at clock reading t
EndLast(cs, status, t) ==
    [cs EXCEPT ![Len(cs)] = [@ EXCEPT !.status = status, !.te = t]]

\* --------------------------------------------------------------- caller
CallArgs == [pipeline : Pipelines, prompt : Prompts,
             nb_pass : {NoArg} \cup {Given(n) : n \in 0..MaxPass},
             steps : {NoArg, Given(WarmupSteps), Given(WarmupSteps + 15)}]

CallArgsTwice == [pipeline : Pipelines, prompt : {"sailing ship in storm by Rembrandt"},
                  nb_pass : {Given(n) : n \in 0..MaxPassTwice},
                  steps : {NoArg}]

Frame0 ==
    /\ history = <<>>
    /\ pc = "idle"
    /\ pipeline = "pipe"
    /\ prompt = "sailing ship in storm by Rembrandt"
    /\ nb_pass = DefaultNbPass
    /\ num_inference_steps = DefaultSteps
    /\ i = 0
    /\ start = NoArg
    /\ end = NoArg
    /\ calls = <<>>
    /\ outcome = NoOutcome
    /\ clock = 1000

\* a cell calls elapsed_time once
Init ==
    /\ script \in {<<a>> : a \in CallArgs}
    /\ Frame0

\* the notebook calls elapsed_time in one cell and again in a later one
InitTwice ==
    /\ script \in {<<a, b>> : a \in CallArgsTwice, b \in CallArgsTwice}
    /\ Frame0

\* -------------------------------------------------------------- actions
\* latency = elapsed_time(...): bind the parameters, enter the body
Call ==
    /\ pc = "idle"
    /\ script # <<>>
    /\ LET a == Head(script) IN
         /\ pipeline' = a.pipeline
         /\ prompt' = a.prompt
         /\ nb_pass' = BindDefault(a.nb_pass, DefaultNbPass)
         /\ num_inference_steps' = BindDefault(a.steps, DefaultSteps)
    /\ i' = 0
    /\ start' = NoArg
    /\ end' = NoArg
    /\ calls' = <<>>
    /\ outcome' = NoOutcome
    /\ pc' = "L50"
    /\ UNCHANGED <<script, history, clock>>

\* a warm-up made on the first call only
WarmupBeginOnce ==
    /\ pc = "L50"
    /\ calls' = IF history = <<>>
                THEN Append(calls,
                       Invocation(WarmupArgs(pipeline, prompt, num_inference_steps), 50, clock))
                ELSE calls
    /\ pc' = IF history = <<>> THEN "L50run" ELSE "L52"
    /\ UNCHANGED <<script, history, pipeline, prompt, nb_pass,
                   num_inference_steps, i, start, end, outcome, clock>>

\* line 50: the warm-up invocation is entered
WarmupBegin ==
    /\ pc = "L50"
    /\ calls' = Append(calls,
            Invocation(WarmupArgs(pipeline, prompt, num_inference_steps), 50, clock))
    /\ pc' = "L50run"
    /\ UNCHANGED <<script, history, pipeline, prompt, nb_pass,
                   num_inference_steps, i, start, end, outcome, clock>>

\* a warm-up whose return rebinds the pipeline to another object
PipelineReturnRebinds ==
    /\ pc \in {"L50run", "L54run"}
    /\ \E dur \in Durations, adj \in ClockSteps :
         /\ clock' = clock + dur + adj
         /\ calls' = EndLast(calls, "returned", clock')
    /\ pipeline' = IF pc = "L50run" THEN "ov_pipe" ELSE pipeline
    /\ pc' = IF pc = "L50run" THEN "L52" ELSE "L53"
    /\ UNCHANGED <<script, history, prompt, nb_pass,
                   num_inference_steps, i, start, end, outcome>>

\* the invocation in progress returns; control goes on after the call
PipelineReturn ==
    /\ pc \in {"L50run", "L54run"}
    /\ \E dur \in Durations, adj \in ClockSteps :
         /\ clock' = clock + dur + adj
         /\ calls' = EndLast(calls, "returned", clock')
    /\ pc' = IF pc = "L50run" THEN "L52" ELSE "L53"
    /\ UNCHANGED <<script, history, pipeline, prompt, nb_pass,
                   num_inference_steps, i, start, end, outcome>>

\* a failure that is caught and ignored: control goes on after the call
PipelineRaiseSwallowed ==
    /\ pc \in {"L50run", "L54run"}
    /\ \E dur \in Durations :
         /\ clock' = clock + dur
         /\ calls' = EndLast(calls, "failed", clock')
    /\ pc' = IF pc = "L50run" THEN "L52" ELSE "L53"
    /\ UNCHANGED <<script, history, pipeline, prompt, nb_pass,
                   num_inference_steps, i, start, end, outcome>>

\* a failed timed invocation that is tried again
PipelineRaiseRetry ==
    /\ pc \in {"L50run", "L54run"}
    /\ \E dur \in Durations :
         /\ clock' = clock + dur
         /\ calls' = EndLast(calls, "failed", clock')
    /\ IF pc = "L54run"
       THEN /\ i' = i - 1
            /\ pc' = "L53"
            /\ UNCHANGED <<script, history, outcome>>
       ELSE /\ outcome' = Raised("PipelineError")
            /\ history' = Append(history, Summary(outcome', calls'))
            /\ script' = Tail(script)
            /\ pc' = "idle"
            /\ i' = i
    /\ UNCHANGED <<pipeline, prompt, nb_pass, num_inference_steps, start, end>>

\* the invocation in progress raises; nothing in elapsed_time catches it
PipelineRaise ==
    /\ pc \in {"L50run", "L54run"}
    /\ \E dur \in Durations :
         /\ clock' = clock + dur
         /\ calls' = EndLast(calls, "failed", clock')
    /\ outcome' = Raised("PipelineError")
    /\ history' = Append(history, Summary(outcome', calls'))
    /\ script' = Tail(script)
    /\ pc' = "idle"
    /\ UNCHANGED <<pipeline, prompt, nb_pass, num_inference_steps, i, start, end>>

\* the start timestamp taken above the warm-up: the reading at its entry
RecordStartBeforeWarmup ==
    /\ pc = "L52"
    /\ start' = Given(calls[1].tb)
    /\ pc' = "L53"
    /\ UNCHANGED <<script, history, pipeline, prompt, nb_pass,
                   num_inference_steps, i, end, calls, outcome, clock>>

\* line 52: start = time.time()
RecordStart ==
    /\ pc = "L52"
    /\ start' = Given(TimeTime)
    /\ pc' = "L53"
    /\ UNCHANGED <<script, history, pipeline, prompt, nb_pass,
                   num_inference_steps, i, end, calls, outcome, clock>>

\* a pass that is started without waiting for the one before it
TimedBeginAsync ==
    /\ pc \in {"L53", "L54run"}
    /\ LoopCond(i, nb_pass)
    /\ i' = i + 1
    /\ calls' = Append(calls,
            Invocation(TimedArgs(pipeline, prompt, num_inference_steps), 54, clock))
    /\ pc' = "L54run"
    /\ UNCHANGED <<script, history, pipeline, prompt, nb_pass,
                   num_inference_steps, start, end, outcome, clock>>

\* lines 53-54: the loop has a next pass; its timed invocation is entered
TimedBegin ==
    /\ pc = "L53"
    /\ LoopCond(i, nb_pass)
    /\ i' = i + 1
    /\ calls' = Append(calls,
            Invocation(TimedArgs(pipeline, prompt, num_inference_steps), 54, clock))
    /\ pc' = "L54run"
    /\ UNCHANGED <<script, history, pipeline, prompt, nb_pass,
                   num_inference_steps, start, end, outcome, clock>>

\* line 53: range(nb_pass) is exhausted
LoopExit ==
    /\ pc = "L53"
    /\ ~LoopCond(i, nb_pass)
    /\ pc' = "L55"
    /\ UNCHANGED <<script, history, pipeline, prompt, nb_pass,
                   num_inference_steps, i, start, end, calls, outcome, clock>>

\* line 55: end = time.time()
RecordEnd ==
    /\ pc = "L55"
    /\ end' = Given(TimeTime)
    /\ pc' = "L56"
    /\ UNCHANGED <<script, history, pipeline, prompt, nb_pass,
                   num_inference_steps, i, start, calls, outcome, clock>>

\* line 56: return (end - start) / nb_pass
ReturnAverage ==
    /\ pc = "L56"
    /\ nb_pass # 0
    /\ outcome' = Returned(Average(start[1], end[1], nb_pass))
    /\ history' = Append(history, Summary(outcome', calls))
    /\ script' = Tail(script)
    /\ pc' = "idle"
    /\ UNCHANGED <<pipeline, prompt, nb_pass, num_inference_steps, i, start,
                   end, calls, clock>>

\* a zero nb_pass answered with a latency of 0 instead of the division
DivideByZeroGuarded ==
    /\ pc = "L56"
    /\ nb_pass = 0
    /\ outcome' = Returned([num |-> 0, den |-> 1])
    /\ history' = Append(history, Summary(outcome', calls))
    /\ script' = Tail(script)
    /\ pc' = "idle"
    /\ UNCHANGED <<pipeline, prompt, nb_pass, num_inference_steps, i, start,
                   end, calls, clock>>

\* line 56 with nb_pass = 0: the division raises
DivideByZero ==
    /\ pc = "L56"
    /\ nb_pass = 0
    /\ outcome' = Raised("ZeroDivisionError")
    /\ history' = Append(history, Summary(outcome', calls))
    /\ script' = Tail(script)
    /\ pc' = "idle"
    /\ UNCHANGED <<pipeline, prompt, nb_pass, num_inference_steps, i, start,
                   end, calls, clock>>

Next ==
    \/ Call
    \/ WarmupBegin
    \/ PipelineReturn
    \/ PipelineRaise
    \/ RecordStart
    \/ TimedBegin
    \/ LoopExit
    \/ RecordEnd
    \/ ReturnAverage
    \/ DivideByZero

Spec == Init /\ [][Next]_vars

SpecTwice == InitTwice /\ [][Next]_vars

\* ------------------------------------------------- vocabulary of the claims
\* the calls that have ended
Ended == {history[k] : k \in DOMAIN history}

\* the duration of an invocation as the harness's clock shows it
Observed(c) == c.te - c.tb

\* every invocation of the call returned: the pipeline always succeeded
AllReturned(h) == \A j \in DOMAIN h.calls : h.calls[j].status = "returned"

\* the invocations made by the loop of line 54
TimedOf(h) == {j \in DOMAIN h.calls : h.calls[j].site = 54}

\* the passes of the call all took d on the clock
FixedTimed(h, d) == \A j \in TimedOf(h) : Observed(h.calls[j]) = d

\* the shape of a complete run: the warm-up first, then exactly n passes
WarmupThenPasses(h, n) ==
    /\ Len(h.calls) = 1 + n
    /\ h.calls[1].site = 50
    /\ \A j \in 2..Len(h.calls) : h.calls[j].site = 54

\* C1: for a pipeline that always succeeds and a positive nb_pass, a call of
\* elapsed_time ends by returning, after exactly 1 + nb_pass invocations: the
\* warm-up first, then exactly nb_pass timed ones.
C1_ExactInvocationCount ==
    \A h \in Ended :
        (AllReturned(h) /\ h.nb_pass > 0) =>
            /\ h.outcome.kind = "returned"
            /\ WarmupThenPasses(h, h.nb_pass)

C1_Witness ==
    \E h \in Ended :
        /\ AllReturned(h)
        /\ h.nb_pass = 2
        /\ h.outcome.kind = "returned"
        /\ Len(h.calls) = 3

\* C2: when the warm-up invocation fails, no timed invocation is made, neither
\* timestamp is recorded, nothing is returned and the pipeline's failure
\* reaches the caller.
C2_WarmupFailurePropagates ==
    /\ (calls # <<>> /\ calls[1].status = "failed") =>
            /\ Len(calls) = 1
            /\ start = NoArg
            /\ end = NoArg
            /\ pc = "idle"
            /\ outcome = Raised("PipelineError")
    /\ \A h \in Ended :
        (h.calls # <<>> /\ h.calls[1].status = "failed") =>
            /\ TimedOf(h) = {}
            /\ h.start = NoArg
            /\ h.end = NoArg
            /\ h.outcome = Raised("PipelineError")

C2_Witness ==
    \E h \in Ended :
        /\ h.calls[1].status = "failed"
        /\ h.nb_pass > 0
        /\ h.outcome.kind = "raised"

\* C3: when the k-th timed invocation fails, the failure ends the call at
\* once: the failed invocation is the last one and the k-th of the loop (no
\* later pass, no retry), the end timestamp is not recorded and the caller
\* gets the failure, not an average.  In every execution the number of
\* invocations is at most 1 + nb_pass.
C3_TimedFailurePropagates ==
    /\ Len(calls) <= 1 + nb_pass
    /\ \A j \in DOMAIN calls :
        (j > 1 /\ calls[j].status = "failed") =>
            /\ j = Len(calls)
            /\ j = 1 + i
            /\ \A m \in 1..(j - 1) : calls[m].status = "returned"
            /\ pc = "idle"
            /\ end = NoArg
            /\ outcome = Raised("PipelineError")
    /\ \A h \in Ended :
        /\ Len(h.calls) <= 1 + h.nb_pass
        /\ \A j \in DOMAIN h.calls :
            (j > 1 /\ h.calls[j].status = "failed") =>
                /\ j = Len(h.calls)
                /\ h.end = NoArg
                /\ h.outcome = Raised("PipelineError")

C3_Witness ==
    \E h \in Ended :
        /\ h.nb_pass = DefaultNbPass
        /\ Len(h.calls) = 3
        /\ h.calls[3].status = "failed"
        /\ h.outcome.kind = "raised"

RECURSIVE SumObserved(_, _)
SumObserved(cs, j) ==
    IF j > Len(cs) THEN 0 ELSE Observed(cs[j]) + SumObserved(cs, j + 1)

\* two exact quotients are the same number
SameValue(p, q) == p.num * q.den = q.num * p.den

\* the passes of two calls took the same durations, one by one
SameTimedDurations(a, b) ==
    /\ Len(a.calls) = Len(b.calls)
    /\ \A j \in 2..Len(a.calls) : Observed(a.calls[j]) = Observed(b.calls[j])

\* C5: the value returned rests on the timed invocations only: it is the sum
\* of their durations over nb_pass, and two calls with the same nb_pass and
\* the same durations of the timed invocations return the same value,
\* whatever their warm-up invocations took.
C5_WarmupCostExcluded ==
    /\ \A h \in Ended :
        h.outcome.kind = "returned" =>
            h.outcome.num * h.nb_pass = SumObserved(h.calls, 2) * h.outcome.den
    /\ \A a \in Ended, b \in Ended :
        ( /\ a.outcome.kind = "returned"
          /\ b.outcome.kind = "returned"
          /\ a.nb_pass = b.nb_pass
          /\ SameTimedDurations(a, b) ) =>
            SameValue(a.outcome, b.outcome)

C5_Witness ==
    /\ Len(history) = 2
    /\ history[1].outcome.kind = "returned"
    /\ history[2].outcome.kind = "returned"
    /\ history[1].nb_pass = history[2].nb_pass
    /\ SameTimedDurations(history[1], history[2])
    /\ Observed(history[1].calls[1]) = 2
    /\ Observed(history[2].calls[1]) = 1
    /\ SameValue(history[1].outcome, history[2].outcome)

\* C6: every result returned is non-negative, and is computed only after the
\* untimed warm-up invocation has completed.
C6_ResultNonNegative ==
    \A h \in Ended :
        h.outcome.kind = "returned" =>
            /\ h.outcome.num * h.outcome.den >= 0
            /\ h.calls[1].site = 50
            /\ h.calls[1].status = "returned"

\* C7: a call with only a pipeline and a prompt that returns has made
\* exactly 4 timed invocations, each with num_inference_steps = 20, after one
\* warm-up invocation.
C7_DefaultsApply ==
    \A h \in Ended :
        (h.given.nb_pass = NoArg /\ h.given.steps = NoArg) =>
            /\ h.nb_pass = 4
            /\ h.num_inference_steps = 20
            /\ h.outcome.kind = "returned" =>
                /\ WarmupThenPasses(h, 4)
                /\ Cardinality(TimedOf(h)) = 4
                /\ \A j \in TimedOf(h) : h.calls[j].steps = 20

C7_Witness ==
    \E h \in Ended :
        /\ h.given.nb_pass = NoArg
        /\ h.given.steps = NoArg
        /\ h.outcome.kind = "returned"
        /\ Len(h.calls) = 5
        /\ h.calls[5].steps = 20

\* the arguments an invocation was made with, and where
ArgsOf(c) == <<c.pipeline, c.prompt, c.steps, c.otype, c.site>>

\* every invocation of the call returned and took d on the clock
Deterministic(h, d) ==
    \A j \in DOMAIN h.calls :
        h.calls[j].status = "returned" /\ Observed(h.calls[j]) = d

WarmupAndPassArguments(cs, pl, pr, steps) ==
    \A j \in DOMAIN cs :
        IF j = 1
        THEN /\ cs[j].site = 50
             /\ cs[j].steps = 10
             /\ cs[j].pipeline = pl
             /\ cs[j].prompt = pr
        ELSE /\ cs[j].site = 54
             /\ cs[j].pipeline = pl
             /\ cs[j].prompt = pr
             /\ cs[j].steps = steps
             /\ cs[j].otype = "np"
             /\ (cs[j].steps = 10 => steps = 10)

\* C9: the warm-up invocation uses step count 10 whatever num_inference_steps
\* is; every timed invocation uses the caller's prompt and
\* num_inference_steps with output_type "np", and a call that returns has
\* made nb_pass of them; none uses 10 unless num_inference_steps is 10.
C9_StepCounts ==
    /\ WarmupAndPassArguments(calls, pipeline, prompt, num_inference_steps)
    /\ \A h \in Ended :
        /\ h.prompt = h.given.prompt
        /\ h.given.steps # NoArg => h.num_inference_steps = h.given.steps[1]
        /\ WarmupAndPassArguments(h.calls, h.pipeline, h.given.prompt,
                                  h.num_inference_steps)
        /\ h.outcome.kind = "returned" => Cardinality(TimedOf(h)) = h.nb_pass

C9_Witness ==
    \E h \in Ended :
        /\ h.given.steps = Given(25)
        /\ h.given.prompt = "another prompt"
        /\ h.outcome.kind = "returned"
        /\ h.nb_pass = 2
        /\ h.calls[1].steps = 10
        /\ h.calls[3].steps = 25

\* the invocations in progress
Running == {j \in DOMAIN calls : calls[j].status = "running"}

\* at most one invocation is in progress, and it is the last one begun
OneAtATime ==
    /\ Cardinality(Running) <= 1
    /\ Running \subseteq {Len(calls)}
    /\ (Running # {}) = (pc \in {"L50run", "L54run"})

\* a step that begins an invocation is taken with none in progress, and a
\* timed one with the start timestamp recorded
BeginsAfterReturn ==
    Len(calls') > Len(calls) =>
        /\ Running = {}
        /\ Len(calls') = Len(calls) + 1
        /\ calls # <<>> => (start # NoArg /\ end = NoArg)

\* the step that records start is taken with the warm-up returned and no
\* timed invocation begun
StartAfterWarmup ==
    (start = NoArg /\ start' # NoArg) =>
        /\ Len(calls) = 1
        /\ calls[1].status = "returned"
        /\ calls' = calls

\* the step that records end is taken with all nb_pass passes returned
EndAfterLastPass ==
    (end = NoArg /\ end' # NoArg) =>
        /\ Len(calls) = 1 + nb_pass
        /\ \A j \in DOMAIN calls : calls[j].status = "returned"
        /\ start # NoArg
        /\ calls' = calls

\* C10: execution is sequential: at most one invocation is in progress, each
\* begins after the one before it has returned, start is recorded after the
\* warm-up has returned and before the first timed invocation begins, and
\* end is recorded only after the nb_pass-th timed invocation has returned.
C10_Sequential ==
    /\ []OneAtATime
    /\ [][BeginsAfterReturn /\ StartAfterWarmup /\ EndAfterLastPass]_vars

C10_Witness ==
    /\ pc = "L56"
    /\ nb_pass = 2
    /\ Len(calls) = 3
    /\ start # NoArg
    /\ end # NoArg
    /\ end[1] = calls[3].te
    /\ start[1] = calls[1].te

\* the parameters of elapsed_time
Params == <<pipeline, prompt, nb_pass, num_inference_steps>>

\* inside a call the parameters are those the caller bound
ParamsAsBound ==
    pc # "idle" =>
        /\ pipeline = Head(script).pipeline
        /\ prompt = Head(script).prompt
        /\ nb_pass = BindDefault(Head(script).nb_pass, DefaultNbPass)
        /\ num_inference_steps = BindDefault(Head(script).steps, DefaultSteps)

\* every invocation of cs was made on pipeline pl with prompt pr
SamePipelineAndPrompt(cs, pl, pr) ==
    \A j \in DOMAIN cs : cs[j].pipeline = pl /\ cs[j].prompt = pr

\* C11: no step of the harness rebinds the pipeline, the prompt, nb_pass or
\* num_inference_steps: from the entry of a call to its end they are the
\* caller's, and every invocation of the call, the 1 + nb_pass of a call that
\* returns included, is made on that one pipeline with that one prompt.
C11_ParametersUnchanged ==
    /\ [](ParamsAsBound /\ SamePipelineAndPrompt(calls, pipeline, prompt))
    /\ [](\A h \in Ended :
            /\ h.pipeline = h.given.pipeline
            /\ h.prompt = h.given.prompt
            /\ SamePipelineAndPrompt(h.calls, h.given.pipeline, h.given.prompt)
            /\ h.outcome.kind = "returned" => Len(h.calls) = 1 + h.nb_pass)
    /\ [][pc # "idle" => Params' = Params]_vars

C11_Witness ==
    \E h \in Ended :
        /\ h.given.pipeline = "pipe"
        /\ h.given.prompt = "another prompt"
        /\ h.outcome.kind = "returned"
        /\ h.nb_pass = DefaultNbPass
        /\ Len(h.calls) = 5
        /\ SamePipelineAndPrompt(h.calls, "pipe", "another prompt")

\* C12: nb_pass is not validated: a call with nb_pass = 0 whose pipeline
\* succeeds still makes the warm-up invocation, makes no timed invocation,
\* records both timestamps and ends in a division-by-zero error, not in a
\* latency value.
C12_ZeroPassesDivideByZero ==
    /\ (nb_pass = 0 /\ pc \notin {"idle", "L50"}) =>
            /\ Len(calls) = 1
            /\ calls[1].site = 50
            /\ i = 0
            /\ outcome.kind # "returned"
    /\ \A h \in Ended :
        (h.nb_pass = 0 /\ AllReturned(h)) =>
            /\ Len(h.calls) = 1
            /\ h.calls[1].site = 50
            /\ h.calls[1].status = "returned"
            /\ TimedOf(h) = {}
            /\ h.start # NoArg
            /\ h.end # NoArg
            /\ h.outcome = Raised("ZeroDivisionError")

C12_Witness ==
    \E h \in Ended :
        /\ h.given.nb_pass = Given(0)
        /\ h.calls[1].status = "returned"
        /\ h.start # NoArg
        /\ h.end # NoArg
        /\ h.outcome.exc = "ZeroDivisionError"

=============================================================================
